---- MODULE Spec2Model ----
(***************************************************************************)
(* The stdio MCP client of slo_agent: MCPClient (mcp_client.py) and the    *)
(* one-shot tool get_instana_application (tools.py), run against a server  *)
(* process whose behaviour is chosen by the environment.                   *)
(***************************************************************************)
EXTENDS Integers, Sequences, FiniteSets, TLC

\* ------------------------------------------------------------------ bounds
MaxProcs == 2       \* processes spawned in one behaviour
MaxCalls == 2       \* tools/call requests written to one process

Clients == {1, 2}   \* MCPClient instances
Solo == {1}         \* the instance the single-client specification drives
ToolCaller == 0     \* the caller of get_instana_application
None == 0           \* self.process = None
AppIds == {"app-1", "app-2"}

\* ------------------------------------------------------------- JSON values
\* A decoded JSON value, as far as the code looks into it.
\*   top     : "obj" (non-empty object), "falsy" ({} [] 0 "" false null),
\*             "scalar" (truthy number or true), "seq" (non-empty list or
\*             string holding none of the keys looked up), "None" (Python None)
\*   id      : the object's "id" member, -1 when it has none
\*   err     : JSON text of the "error" member, "absent" when it has none
\*   res     : the "result" member: "absent", "obj", "null", "scalar", "seq"
\*   content : result["content"]: "absent", "emptylist", "list", "other"
\*   first   : content[0]: "obj", "nonobj", "na"
\*   textk   : content[0]["text"]: "absent", "str", "nonstr", "na"
\*   text    : the text when textk = "str", "" otherwise
JVal(top, id, err, res, content, first, textk, text) ==
    [top |-> top, id |-> id, err |-> err, res |-> res, content |-> content,
     first |-> first, textk |-> textk, text |-> text]

NoneVal == JVal("None", -1, "absent", "absent", "absent", "na", "na", "")
FalsyVal == JVal("falsy", -1, "absent", "absent", "absent", "na", "na", "")
ScalarVal == JVal("scalar", -1, "absent", "absent", "absent", "na", "na", "")
SeqVal == JVal("seq", -1, "absent", "absent", "absent", "na", "na", "")

ErrTexts == {"{\"code\":-32000,\"message\":\"not authorized\"}", "\"boom\"", "null"}
Texts == {"{\"label\":\"robot-shop\",\"services\":[{\"name\":\"cart\"}]}",
          "\"cart\"", "42", "plain text answer", ""}

\* The shapes of result: every way down the lookups of tools.py:156-160.
ResultShapes ==
    {<<r, "absent", "na", "na", "">> : r \in {"absent", "null", "scalar", "seq"}}
    \cup {<<"obj", c, "na", "na", "">> : c \in {"absent", "emptylist", "other"}}
    \cup {<<"obj", "list", "nonobj", "na", "">>}
    \cup {<<"obj", "list", "obj", k, "">> : k \in {"absent", "nonstr"}}
    \cup {<<"obj", "list", "obj", "str", t>> : t \in Texts}

ObjVals(ids) ==
    {JVal("obj", i, e, s[1], s[2], s[3], s[4], s[5]) :
        i \in ids, e \in ErrTexts \cup {"absent"}, s \in ResultShapes}

\* json.loads on a text: [ok, val]; val names the decoded Python value.
JsonLoads(t) ==
    CASE t = "{\"label\":\"robot-shop\",\"services\":[{\"name\":\"cart\"}]}" ->
            [ok |-> TRUE, val |-> "dict(label='robot-shop', services=[dict(name='cart')])"]
      [] t = "\"cart\"" -> [ok |-> TRUE, val |-> "str(cart)"]
      [] t = "42" -> [ok |-> TRUE, val |-> "int(42)"]
      [] OTHER -> [ok |-> FALSE, val |-> ""]

\* str() of the decoded "error" member.
PyStr(e) ==
    CASE e = "{\"code\":-32000,\"message\":\"not authorized\"}" ->
            "{'code': -32000, 'message': 'not authorized'}"
      [] e = "\"boom\"" -> "boom"
      [] e = "null" -> "None"
      [] OTHER -> e

\* Python truthiness of a decoded value (None included).
Truthy(v) == v.top \notin {"None", "falsy"}

\* ------------------------------------------------- lines on the server's stdout
\* One line of the server's output: k = "json" (v is the value it decodes
\* to), "malformed" (not JSON), "empty" (a bare newline) or "badenc" (bytes
\* the text layer cannot decode: readline raises).
JsonLine(v) == [k |-> "json", v |-> v]
MalformedLine == [k |-> "malformed", v |-> NoneVal]
EmptyLine == [k |-> "empty", v |-> NoneVal]
BadEncLine == [k |-> "badenc", v |-> NoneVal]

AckVal == JVal("obj", 0, "absent", "obj", "absent", "na", "na", "")
ErrorAckVal == JVal("obj", 0, "{\"code\":-32000,\"message\":\"not authorized\"}",
                    "absent", "absent", "na", "na", "")
OtherIdVal == JVal("obj", 1, "absent", "obj", "absent", "na", "na", "")
TextResultVal == JVal("obj", 1, "absent", "obj", "list", "obj", "str", "42")
ToolErrorVal == JVal("obj", 1, "null", "absent", "absent", "na", "na", "")

\* What a server may answer to initialize, to a tools/call of MCPClient, and
\* to the tools/call of get_instana_application.
InitLines ==
    {JsonLine(v) : v \in {AckVal, ErrorAckVal, OtherIdVal, FalsyVal, ScalarVal}}
    \cup {MalformedLine, EmptyLine, BadEncLine}
ClientToolLines ==
    {JsonLine(TextResultVal), JsonLine(ToolErrorVal), MalformedLine, EmptyLine}
ToolLines ==
    {JsonLine(v) : v \in ObjVals({1}) \cup {FalsyVal, ScalarVal, SeqVal}}
    \cup {MalformedLine, EmptyLine, BadEncLine}

\* What follows a response in the same reply: a notification or a log line.
NotificationVal == JVal("obj", -1, "absent", "absent", "absent", "na", "na", "")
ExtraLines == {JsonLine(NotificationVal), MalformedLine}

\* The lines of one reply: none, one, or a response and a second line.
InitReplies ==
    {<<>>} \cup {<<l>> : l \in InitLines}
    \cup {<<JsonLine(AckVal), l>> : l \in ExtraLines}
ClientToolReplies ==
    {<<>>} \cup {<<l>> : l \in ClientToolLines}
    \cup {<<MalformedLine, JsonLine(TextResultVal)>>,
          <<JsonLine(TextResultVal), JsonLine(NotificationVal)>>}
ToolReplies == {<<>>} \cup {<<l>> : l \in ToolLines}

\* A server's reaction to a request it has read: the lines it emits, and
\* whether it then stays, exits, or closes its stdout and stays alive.
Thens == {"stay", "exit", "closeOut"}
Reactions(lineSeqs) == [lines : lineSeqs, then : Thens]
\* After a reply to tools/call nothing more is written in the same operation:
\* a server that exits then is one that stays and exits later (ServerExit).
CallReactions(lineSeqs) ==
    {r \in Reactions(lineSeqs) : r.lines # <<>> => r.then = "stay"}
InitReactions == Reactions(InitReplies)
ClientToolReactions == CallReactions(ClientToolReplies)
ToolReactions == CallReactions(ToolReplies)
NoReaction == [lines |-> <<>>, then |-> "stay"]

\* ------------------------------------------------------------ JSON-RPC requests
init_request == [method |-> "initialize", id |-> 0]
initialized_notif == [method |-> "notifications/initialized", id |-> -1]
tool_request == [method |-> "tools/call", id |-> 1]

\* ------------------------------------------------------------------- state
VARIABLES
    process,        \* process[c]: self.process of client c, a pid or None
    initialized,    \* initialized[c]: self._initialized of client c
    procs,          \* procs[pid]: every process spawned so far
    blocked,        \* callers inside a readline that never returns
    last            \* the last operation, its caller and what it returned

vars == <<process, initialized, procs, blocked, last>>

\* ---------------------------------------------------------- the server process
\* subprocess.Popen: the new process, running or already exited.
Popen(owner, start) ==
    [owner |-> owner, state |-> start, outOpen |-> start = "running",
     termSent |-> FALSE,
     reaped |-> FALSE, out |-> <<>>, log |-> <<>>]

WEvent(req) == [e |-> "W", m |-> req.method, id |-> req.id]
WFailEvent(req) == [e |-> "WFail", m |-> req.method, id |-> req.id]
REvent(outcome) == [e |-> "R", m |-> outcome, id |-> -1]

Requests(log) == SelectSeq(log, LAMBDA ev : ev.e = "W" /\ ev.id >= 0)
Tag(lines, n) == [i \in 1..Len(lines) |-> [k |-> lines[i].k, v |-> lines[i].v, req |-> n]]

\* stdin.write + flush: the line reaches a running server, which reacts;
\* a write to a process that has exited raises BrokenPipeError.
Write(p, req, react) ==
    IF p.state = "running"
    THEN [ok |-> TRUE,
          proc |-> [p EXCEPT
                      !.log = Append(@, WEvent(req)),
                      !.out = @ \o Tag(react.lines, Len(Requests(p.log)) + 1),
                      !.state = IF react.then = "exit" THEN "exited" ELSE @,
                      !.outOpen = IF react.then = "stay" THEN @ ELSE FALSE]]
    ELSE [ok |-> FALSE, proc |-> [p EXCEPT !.log = Append(@, WFailEvent(req))]]

\* stdout.readline: the next line in the pipe; "" (eof) when the pipe is
\* empty and the server closed it or exited; otherwise it never returns.
Readline(p) ==
    IF p.out # <<>>
    THEN IF Head(p.out).k = "badenc"
         THEN [k |-> "raise", line |-> Head(p.out),
               proc |-> [p EXCEPT !.out = Tail(@), !.log = Append(@, REvent("raise"))]]
         ELSE [k |-> "line", line |-> Head(p.out),
               proc |-> [p EXCEPT !.out = Tail(@), !.log = Append(@, REvent("line"))]]
    ELSE IF p.state = "exited" \/ ~p.outOpen
         THEN [k |-> "eof", line |-> EmptyLine,
               proc |-> [p EXCEPT !.log = Append(@, REvent("eof"))]]
         ELSE [k |-> "block", line |-> EmptyLine,
               proc |-> [p EXCEPT !.log = Append(@, REvent("block"))]]

\* Popen.terminate: the signal is sent; a running server either exits within
\* the grace period (exits) or keeps running.
Terminate(p, exits) ==
    [p EXCEPT !.termSent = TRUE,
              !.state = IF exits THEN "exited" ELSE @,
              !.outOpen = IF exits THEN FALSE ELSE @]

\* Popen.wait(timeout=2): reaps an exited process, raises TimeoutExpired on a
\* running one.
Wait(p) ==
    IF p.state = "exited"
    THEN [ok |-> TRUE, proc |-> [p EXCEPT !.reaped = TRUE]]
    ELSE [ok |-> FALSE, proc |-> p]

\* ------------------------------------------------------------ return values
\* A tool result dictionary; a key the dictionary lacks is "absent".
Dict(error, message, application_id, id, data, source) ==
    [error |-> error, message |-> message, application_id |-> application_id,
     id |-> id, data |-> data, source |-> source]
NoData == [form |-> "absent", val |-> ""]
NoDict == Dict("absent", "absent", "absent", "absent", NoData, "absent")

\* What an operation returned: kind is "pair" (connect's (success, message)),
\* "value" (call_tool's response or None), "none" (disconnect), "text"
\* (fetch_application, msg the form of the text), "client", "dict"
\* (get_instana_application), "raised" (an exception left the operation) or
\* "blocked" (the operation never returns).
Ret(kind, ok, msg, val, dict) ==
    [kind |-> kind, ok |-> ok, msg |-> msg, val |-> val, dict |-> dict]
RetPair(ok, msg) == Ret("pair", ok, msg, NoneVal, NoDict)
RetValue(v) == Ret("value", TRUE, "None", v, NoDict)
RetNone == Ret("none", TRUE, "None", NoneVal, NoDict)
RetDict(d) == Ret("dict", TRUE, "None", NoneVal, d)
RetRaised(exc) == Ret("raised", FALSE, exc, NoneVal, NoDict)
RetBlocked == Ret("blocked", FALSE, "None", NoneVal, NoDict)
RetClient == Ret("client", TRUE, "None", NoneVal, NoDict)

\* The last operation: its name, caller and argument (the application id);
\* pre: the client was Ready (self._initialized) when it began; pid: the
\* process it spawned, None if none; init, resp: what it decoded as the
\* response to initialize and to tools/call (NoneVal if nothing); ret: what it
\* returned.
Last(op, c, arg, pre, pid, init, resp, ret) ==
    [op |-> op, c |-> c, arg |-> arg, pre |-> pre, pid |-> pid, init |-> init,
     resp |-> resp, ret |-> ret]

\* The exceptions a bare "except Exception" catches.
Exceptions == {"TimeoutExpired", "BrokenPipeError", "FileNotFoundError",
               "UnicodeDecodeError", "JSONDecodeError", "TypeError",
               "AttributeError"}

\* --------------------------------------------------------------- MCPClient
\* The fields of the clients and the processes, threaded through a method.
\* The output and the event log of a process are history: they are kept
\* while a client holds the process and until the operation after the one
\* that let it go.
Held(proc, pid) == \E c \in Clients : proc[c] = pid
Forget(proc, ps) ==
    [pid \in 1..Len(ps) |->
        IF Held(proc, pid) THEN ps[pid]
        ELSE [ps[pid] EXCEPT !.out = <<>>, !.log = <<>>]]
St == [process |-> process, initialized |-> initialized,
       procs |-> Forget(process, procs)]

\* _send_and_receive that does not read: the request is written and None is
\* returned without waiting for the response.
_send_only(p, request, react) ==
    [proc |-> Write(p, request, react).proc, ret |-> NoneVal, blocked |-> FALSE]

\* MCPClient._send_and_receive on process record p: [proc, ret, blocked].
\* Every exception of the write, the read and the decoding is turned into None.
_send_and_receive(p, request, react) ==
    LET w == Write(p, request, react)
        r == Readline(w.proc)
    IN  IF ~w.ok THEN [proc |-> w.proc, ret |-> NoneVal, blocked |-> FALSE]
        ELSE IF r.k = "block" THEN [proc |-> r.proc, ret |-> NoneVal, blocked |-> TRUE]
        ELSE IF r.k = "line" /\ r.line.k = "json"
             THEN [proc |-> r.proc, ret |-> r.line.v, blocked |-> FALSE]
        ELSE [proc |-> r.proc, ret |-> NoneVal, blocked |-> FALSE]

\* do_disconnect that clears the handle only: self._initialized is left as
\* it was.
do_disconnect_handle_only(st, c, exits) ==
    IF st.process[c] = None
    THEN [st |-> st, exc |-> "none"]
    ELSE LET h == st.process[c]
             w == Wait(Terminate(st.procs[h], exits))
         IN  [st |-> [process |-> [st.process EXCEPT ![c] = None],
                      initialized |-> st.initialized,
                      procs |-> [st.procs EXCEPT ![h] = w.proc]],
              exc |-> "none"]

\* do_disconnect that only forgets the process: the handle and the flag are
\* cleared, terminate and wait are not called.
do_disconnect_no_terminate(st, c, exits) ==
    [st |-> [process |-> [st.process EXCEPT ![c] = None],
             initialized |-> [st.initialized EXCEPT ![c] = FALSE],
             procs |-> st.procs],
     exc |-> "none"]

\* do_disconnect on fields shared by all instances (class attributes): the
\* handle and the flag of every client are cleared.
do_disconnect_shared(st, c, exits) ==
    IF st.process[c] = None
    THEN [st |-> st, exc |-> "none"]
    ELSE LET h == st.process[c]
             w == Wait(Terminate(st.procs[h], exits))
         IN  [st |-> [process |-> [d \in Clients |-> None],
                      initialized |-> [d \in Clients |-> FALSE],
                      procs |-> [st.procs EXCEPT ![h] = w.proc]],
              exc |-> "none"]

\* do_disconnect with the "except Exception: pass" clause left out: the
\* TimeoutExpired of wait leaves the method (the finally clause still runs).
do_disconnect_no_except(st, c, exits) ==
    IF st.process[c] = None
    THEN [st |-> st, exc |-> "none"]
    ELSE LET h == st.process[c]
             w == Wait(Terminate(st.procs[h], exits))
         IN  [st |-> [process |-> [st.process EXCEPT ![c] = None],
                      initialized |-> [st.initialized EXCEPT ![c] = FALSE],
                      procs |-> [st.procs EXCEPT ![h] = w.proc]],
              exc |-> IF w.ok THEN "none" ELSE "TimeoutExpired"]

\* MCPClient.disconnect on state st: [st, exc]; exc is the exception that
\* leaves the method, "none" when it returns.
do_disconnect(st, c, exits) ==
    IF st.process[c] = None
    THEN [st |-> st, exc |-> "none"]
    ELSE LET h == st.process[c]
             w == Wait(Terminate(st.procs[h], exits))
             raised == IF w.ok THEN "none" ELSE "TimeoutExpired"
         IN  [st |-> [process |-> [st.process EXCEPT ![c] = None],
                      initialized |-> [st.initialized EXCEPT ![c] = FALSE],
                      procs |-> [st.procs EXCEPT ![h] = w.proc]],
              exc |-> IF raised \in Exceptions THEN "none" ELSE raised]

\* do_connect with step 2 left out: Ready is set right after the response to
\* initialize, and notifications/initialized is never written.
do_connect_no_notif(st, c, spawn, react, exits) ==
    LET pid == Len(st.procs) + 1
        st1 == [st EXCEPT !.process[c] = pid,
                          !.procs = Append(@, Popen(c, spawn))]
        s == _send_and_receive(st1.procs[pid], init_request, react)
        st2 == [st1 EXCEPT !.procs[pid] = s.proc]
        Out(stN, ret, blk, spawned) ==
            [st |-> stN, ret |-> ret, blocked |-> blk, pid |-> spawned,
             init |-> IF spawned = None THEN NoneVal ELSE s.ret]
    IN  IF spawn = "raise"
        THEN Out(do_disconnect(st, c, exits).st,
                 RetPair(FALSE, "Failed to connect to MCP server: FileNotFoundError"),
                 FALSE, None)
        ELSE IF s.blocked
        THEN Out(st2, RetBlocked, TRUE, pid)
        ELSE IF ~Truthy(s.ret)
        THEN Out(do_disconnect(st2, c, exits).st,
                 RetPair(FALSE, "No initialization response from MCP server"),
                 FALSE, pid)
        ELSE Out([st2 EXCEPT !.initialized[c] = TRUE], RetPair(TRUE, "None"),
                 FALSE, pid)

\* do_connect that retries in place: after a handshake that got no response
\* it writes initialize once more to the same process before giving up.
do_connect_retry(st, c, spawn, react, exits) ==
    LET pid == Len(st.procs) + 1
        st1 == [st EXCEPT !.process[c] = pid,
                          !.procs = Append(@, Popen(c, spawn))]
        s == _send_and_receive(st1.procs[pid], init_request, react)
        st2 == [st1 EXCEPT !.procs[pid] = s.proc]
        again == [st1 EXCEPT !.procs[pid] = Write(s.proc, init_request, NoReaction).proc]
        n == Write(s.proc, initialized_notif, NoReaction)
        st3 == [st2 EXCEPT !.procs[pid] = n.proc]
        Out(stN, ret, blk, spawned) ==
            [st |-> stN, ret |-> ret, blocked |-> blk, pid |-> spawned,
             init |-> IF spawned = None THEN NoneVal ELSE s.ret]
    IN  IF spawn = "raise"
        THEN Out(do_disconnect(st, c, exits).st,
                 RetPair(FALSE, "Failed to connect to MCP server: FileNotFoundError"),
                 FALSE, None)
        ELSE IF s.blocked
        THEN Out(st2, RetBlocked, TRUE, pid)
        ELSE IF ~Truthy(s.ret)
        THEN Out(do_disconnect(again, c, exits).st,
                 RetPair(FALSE, "No initialization response from MCP server"),
                 FALSE, pid)
        ELSE IF ~n.ok
        THEN Out(do_disconnect(st3, c, exits).st,
                 RetPair(FALSE, "Failed to connect to MCP server: BrokenPipeError"),
                 FALSE, pid)
        ELSE Out([st3 EXCEPT !.initialized[c] = TRUE], RetPair(TRUE, "None"),
                 FALSE, pid)

\* do_connect with the "except Exception" clause left out: the exception of
\* Popen and of the write of the notification leaves connect.
do_connect_no_except(st, c, spawn, react, exits) ==
    LET pid == Len(st.procs) + 1
        st1 == [st EXCEPT !.process[c] = pid,
                          !.procs = Append(@, Popen(c, spawn))]
        s == _send_and_receive(st1.procs[pid], init_request, react)
        st2 == [st1 EXCEPT !.procs[pid] = s.proc]
        n == Write(s.proc, initialized_notif, NoReaction)
        st3 == [st2 EXCEPT !.procs[pid] = n.proc]
        Out(stN, ret, blk, spawned) ==
            [st |-> stN, ret |-> ret, blocked |-> blk, pid |-> spawned,
             init |-> IF spawned = None THEN NoneVal ELSE s.ret]
    IN  IF spawn = "raise"
        THEN Out(st, RetRaised("FileNotFoundError"), FALSE, None)
        ELSE IF s.blocked
        THEN Out(st2, RetBlocked, TRUE, pid)
        ELSE IF ~Truthy(s.ret)
        THEN Out(do_disconnect(st2, c, exits).st,
                 RetPair(FALSE, "No initialization response from MCP server"),
                 FALSE, pid)
        ELSE IF ~n.ok
        THEN Out(st3, RetRaised("BrokenPipeError"), FALSE, pid)
        ELSE Out([st3 EXCEPT !.initialized[c] = TRUE], RetPair(TRUE, "None"),
                 FALSE, pid)

\* MCPClient.connect past the early return: [st, ret, blocked, pid, init].
do_connect(st, c, spawn, react, exits) ==
    LET pid == Len(st.procs) + 1
        st1 == [st EXCEPT !.process[c] = pid,
                          !.procs = Append(@, Popen(c, spawn))]
        s == _send_and_receive(st1.procs[pid], init_request, react)
        st2 == [st1 EXCEPT !.procs[pid] = s.proc]
        n == Write(s.proc, initialized_notif, NoReaction)
        st3 == [st2 EXCEPT !.procs[pid] = n.proc]
        Out(stN, ret, blk, spawned) ==
            [st |-> stN, ret |-> ret, blocked |-> blk, pid |-> spawned,
             init |-> IF spawned = None THEN NoneVal ELSE s.ret]
    IN  IF spawn = "raise"
        THEN Out(do_disconnect(st, c, exits).st,
                 RetPair(FALSE, "Failed to connect to MCP server: FileNotFoundError"),
                 FALSE, None)
        ELSE IF s.blocked
        THEN Out(st2, RetBlocked, TRUE, pid)
        ELSE IF ~Truthy(s.ret)
        THEN Out(do_disconnect(st2, c, exits).st,
                 RetPair(FALSE, "No initialization response from MCP server"),
                 FALSE, pid)
        ELSE IF ~n.ok
        THEN Out(do_disconnect(st3, c, exits).st,
                 RetPair(FALSE, "Failed to connect to MCP server: BrokenPipeError"),
                 FALSE, pid)
        ELSE Out([st3 EXCEPT !.initialized[c] = TRUE], RetPair(TRUE, "None"),
                 FALSE, pid)

Commit(st) ==
    /\ process' = st.process
    /\ initialized' = st.initialized
    /\ procs' = st.procs

\* connect without the early return: it spawns and shakes hands whether or
\* not the client is Ready.
connect_respawn(c) ==
    /\ c \notin blocked
    /\ \E spawn \in {"raise", "running", "exited"}, react \in InitReactions,
          exits \in BOOLEAN :
          /\ spawn # "raise" => Len(procs) < MaxProcs
          /\ LET r == do_connect(St, c, spawn, react, exits)
             IN  /\ Commit(r.st)
                 /\ blocked' = IF r.blocked THEN blocked \cup {c} ELSE blocked
                 /\ last' = Last("connect", c, "absent", initialized[c], r.pid,
                                 r.init, NoneVal, r.ret)

\* MCPClient.connect of client c, against a server whose reaction to
\* initialize is one of reactions.
connect_on(c, reactions) ==
    /\ c \notin blocked
    /\ IF initialized[c]
       THEN /\ last' = Last("connect", c, "absent", TRUE, None, NoneVal, NoneVal,
                            RetPair(TRUE, "None"))
            /\ UNCHANGED <<process, initialized, procs, blocked>>
       ELSE \E spawn \in {"raise", "running", "exited"}, react \in reactions,
               exits \in BOOLEAN :
               /\ spawn # "raise" => Len(procs) < MaxProcs
               /\ LET r == do_connect(St, c, spawn, react, exits)
                  IN  /\ Commit(r.st)
                      /\ blocked' = IF r.blocked THEN blocked \cup {c} ELSE blocked
                      /\ last' = Last("connect", c, "absent", FALSE, r.pid, r.init,
                                      NoneVal, r.ret)

connect(c) == connect_on(c, InitReactions)

\* The tools/call requests written, or attempted, on a process.
ToolCalls(log) == SelectSeq(log, LAMBDA ev : ev.e # "R" /\ ev.m = "tools/call")

\* do_call_tool that connects on demand instead of returning None when the
\* client is not Ready.
do_call_tool_lazy(st, c, react) ==
    LET st0 == IF st.initialized[c] THEN st
               ELSE do_connect(st, c, "running",
                               [lines |-> <<JsonLine(AckVal)>>, then |-> "stay"],
                               TRUE).st
        h == st0.process[c]
        s == _send_and_receive(st0.procs[h], tool_request, react)
    IN  [st |-> [st0 EXCEPT !.procs[h] = s.proc],
         ret |-> IF s.blocked THEN RetBlocked ELSE RetValue(s.ret),
         blocked |-> s.blocked]

\* do_call_tool that tears the connection down when the exchange gave no
\* response: it calls disconnect before it returns None.
do_call_tool_teardown(st, c, react) ==
    LET h == st.process[c]
        s == _send_and_receive(st.procs[h], tool_request, react)
        st1 == [st EXCEPT !.procs[h] = s.proc]
    IN  IF ~st.initialized[c]
        THEN [st |-> st, ret |-> RetValue(NoneVal), blocked |-> FALSE]
        ELSE IF h = None
        THEN [st |-> st, ret |-> RetValue(NoneVal), blocked |-> FALSE]
        ELSE IF s.blocked
        THEN [st |-> st1, ret |-> RetBlocked, blocked |-> TRUE]
        ELSE [st |-> IF s.ret = NoneVal THEN do_disconnect(st1, c, TRUE).st ELSE st1,
              ret |-> RetValue(s.ret), blocked |-> FALSE]

\* do_call_tool that numbers its requests: the n-th tools/call on a process
\* carries id n.
do_call_tool_fresh_id(st, c, react) ==
    LET h == st.process[c]
        n == Len(ToolCalls(st.procs[h].log)) + 1
        s == _send_and_receive(st.procs[h], [method |-> "tools/call", id |-> n], react)
    IN  IF ~st.initialized[c]
        THEN [st |-> st, ret |-> RetValue(NoneVal), blocked |-> FALSE]
        ELSE IF h = None
        THEN [st |-> st, ret |-> RetValue(NoneVal), blocked |-> FALSE]
        ELSE [st |-> [st EXCEPT !.procs[h] = s.proc],
              ret |-> IF s.blocked THEN RetBlocked ELSE RetValue(s.ret),
              blocked |-> s.blocked]

\* MCPClient.call_tool: [st, ret, blocked].
do_call_tool(st, c, react) ==
    LET h == st.process[c]
        s == _send_and_receive(st.procs[h], tool_request, react)
    IN  IF ~st.initialized[c]
        THEN [st |-> st, ret |-> RetValue(NoneVal), blocked |-> FALSE]
        ELSE IF h = None
        THEN [st |-> st, ret |-> RetValue(NoneVal), blocked |-> FALSE]
        ELSE [st |-> [st EXCEPT !.procs[h] = s.proc],
              ret |-> IF s.blocked THEN RetBlocked ELSE RetValue(s.ret),
              blocked |-> s.blocked]

\* MCPClient.call_tool of client c, against a server whose reaction to
\* tools/call is one of reactions.
call_tool_on(c, reactions) ==
    /\ c \notin blocked
    /\ process[c] # None => Len(ToolCalls(procs[process[c]].log)) < MaxCalls
    /\ \E react \in reactions :
          LET r == do_call_tool(St, c, react)
          IN  /\ Commit(r.st)
              /\ blocked' = IF r.blocked THEN blocked \cup {c} ELSE blocked
              /\ last' = Last("call_tool", c, "absent", initialized[c], None,
                              NoneVal, r.ret.val, r.ret)

call_tool(c) == call_tool_on(c, ClientToolReactions)

disconnect(c) ==
    /\ c \notin blocked
    /\ \E exits \in BOOLEAN :
          LET r == do_disconnect(St, c, exits)
          IN  /\ Commit(r.st)
              /\ last' = Last("disconnect", c, "absent", initialized[c], None,
                              NoneVal, NoneVal,
                              IF r.exc = "none" THEN RetNone ELSE RetRaised(r.exc))
              /\ UNCHANGED blocked

\* MCPClient.__exit__: the scope of "with MCPClient() as c" is left, after a
\* normal return of its body or an exception in it; it calls disconnect.
__exit__(c) ==
    /\ c \notin blocked
    /\ \E exits \in BOOLEAN :
          LET r == do_disconnect(St, c, exits)
          IN  /\ Commit(r.st)
              /\ last' = Last("__exit__", c, "absent", initialized[c], None,
                              NoneVal, NoneVal,
                              IF r.exc = "none" THEN RetNone ELSE RetRaised(r.exc))
              /\ UNCHANGED blocked

\* The values os.getenv gives for INSTANA_BASE_URL and INSTANA_API_TOKEN:
\* None (unset), the empty string, or a non-empty string.
EnvValues == {"None", "", "set"}

\* A check of the URL alone.
CredentialsUrlOnly(instana_base_url, instana_api_token) ==
    instana_base_url \notin {"None", ""}

\* not (not instana_base_url or not instana_api_token)
CredentialsConfigured(instana_base_url, instana_api_token) ==
    /\ instana_base_url \notin {"None", ""}
    /\ instana_api_token \notin {"None", ""}

\* create_instana_mcp_client: raises ValueError when a credential is missing,
\* otherwise returns MCPClient(), a new instance c (no handle, not Ready).
\* It is the constructor of instance c: c has spawned nothing before it.
create_instana_mcp_client(c, instana_base_url, instana_api_token) ==
    /\ c \notin blocked
    /\ \A pid \in 1..Len(procs) : procs[pid].owner # c
    /\ IF CredentialsConfigured(instana_base_url, instana_api_token)
       THEN /\ process' = [process EXCEPT ![c] = None]
            /\ initialized' = [initialized EXCEPT ![c] = FALSE]
            /\ last' = Last("create_instana_mcp_client", c, "absent", FALSE, None,
                            NoneVal, NoneVal, RetClient)
       ELSE /\ last' = Last("create_instana_mcp_client", c, "absent", FALSE, None,
                            NoneVal, NoneVal, RetRaised("ValueError"))
            /\ UNCHANGED <<process, initialized>>
    /\ UNCHANGED <<procs, blocked>>

\* ------------------------------------------------- get_instana_application
\* The nested send_and_receive of get_instana_application:
\* [proc, ret, exc, blocked]. No exception is caught here: exc names the one
\* that leaves the function, "none" when it returns ret.
send_and_receive(p, request, react) ==
    LET Out(proc, ret, exc, blk) ==
            [proc |-> proc, ret |-> ret, exc |-> exc, blocked |-> blk]
        Read(r) ==
            IF r.k = "block" THEN Out(r.proc, NoneVal, "none", TRUE)
            ELSE IF r.k = "raise" THEN Out(r.proc, NoneVal, "UnicodeDecodeError", FALSE)
            ELSE IF r.k = "eof" THEN Out(r.proc, NoneVal, "none", FALSE)
            ELSE IF r.line.k = "json" THEN Out(r.proc, r.line.v, "none", FALSE)
            ELSE Out(r.proc, NoneVal, "JSONDecodeError", FALSE)
        Written(w) ==
            IF ~w.ok THEN Out(w.proc, NoneVal, "BrokenPipeError", FALSE)
            ELSE Read(Readline(w.proc))
    IN  Written(Write(p, request, react))

Failure(error, message, application_id) ==
    Dict(error, message, application_id, "absent", NoData, "absent")
Success(application_id, data) ==
    Dict("absent", "absent", "absent", application_id, data, "mcp-instana")

\* tools.py:140-182, the branch on the decoded response: [dict, exc].
Classify(tool_response, application_id) ==
    LET v == tool_response
        Returns(d) == [dict |-> d, exc |-> "none"]
        Raises(e) == [dict |-> NoDict, exc |-> e]
        parsed == JsonLoads(v.text)
    IN  IF ~Truthy(v)
        THEN Returns(Failure("No response from tool call",
                             "MCP server did not respond to tool call", application_id))
        ELSE IF v.top = "scalar" THEN Raises("TypeError")
        ELSE IF v.top = "obj" /\ v.err # "absent"
        THEN Returns(Failure("MCP tool call failed", PyStr(v.err), application_id))
        ELSE IF v.top = "obj" /\ v.res \in {"null", "scalar"} THEN Raises("TypeError")
        ELSE IF v.top = "obj" /\ v.res = "obj" /\ v.content = "list"
        THEN IF v.first # "obj" THEN Raises("AttributeError")
             ELSE IF v.textk = "nonstr" THEN Raises("TypeError")
             ELSE IF parsed.ok
             THEN Returns(Success(application_id, [form |-> "json", val |-> parsed.val]))
             ELSE Returns(Success(application_id, [form |-> "text", val |-> v.text]))
        ELSE Returns(Failure("Application not found",
                             "Could not find application with ID {application_id}",
                             application_id))

\* The two except clauses of get_instana_application: the process, if one was
\* spawned, is sent the signal (no wait), and a failure dictionary is returned.
Handler(p, exc, application_id, exits) ==
    [proc |-> Terminate(p, exits),
     dict |-> IF exc = "TimeoutExpired"
              THEN Failure("MCP server timeout",
                           "MCP server did not respond within timeout period",
                           application_id)
              ELSE Failure("Failed to fetch application from Instana MCP", exc,
                           application_id)]

\* tool_handshake without the check of init_response: the notification is
\* written whatever the read gave.
tool_handshake_unchecked(p, react) ==
    LET Out(proc, status, exc, init) ==
            [proc |-> proc, status |-> status, exc |-> exc, init |-> init]
        Notified(n, init) ==
            IF ~n.ok THEN Out(n.proc, "exc", "BrokenPipeError", init)
            ELSE Out(n.proc, "ok", "none", init)
        Received(s) ==
            IF s.blocked THEN Out(s.proc, "blocked", "none", s.ret)
            ELSE IF s.exc # "none" THEN Out(s.proc, "exc", s.exc, s.ret)
            ELSE Notified(Write(s.proc, initialized_notif, NoReaction), s.ret)
    IN  Received(send_and_receive(p, init_request, react))

\* tools.py:85-118: the handshake on the new process p:
\* [proc, status, exc, init], status "ok", "failed" (no response), "exc" or
\* "blocked".
tool_handshake(p, react) ==
    LET Out(proc, status, exc, init) ==
            [proc |-> proc, status |-> status, exc |-> exc, init |-> init]
        Notified(n, init) ==
            IF ~n.ok THEN Out(n.proc, "exc", "BrokenPipeError", init)
            ELSE Out(n.proc, "ok", "none", init)
        Received(s) ==
            IF s.blocked THEN Out(s.proc, "blocked", "none", s.ret)
            ELSE IF s.exc # "none" THEN Out(s.proc, "exc", s.exc, s.ret)
            ELSE IF ~Truthy(s.ret) THEN Out(s.proc, "failed", "none", s.ret)
            ELSE Notified(Write(s.proc, initialized_notif, NoReaction), s.ret)
    IN  Received(send_and_receive(p, init_request, react))

\* tools.py:120-199 after a completed handshake: [proc, dict, blocked, resp].
tool_call(p, application_id, react, exits) ==
    LET Done(proc, d, resp) ==
            [proc |-> proc, dict |-> d, blocked |-> FALSE, resp |-> resp]
        Handled(h, resp) == Done(h.proc, h.dict, resp)
        Cleaned(w, c, resp) ==
            IF ~w.ok
            THEN Handled(Handler(w.proc, "TimeoutExpired", application_id, exits), resp)
            ELSE IF c.exc # "none"
            THEN Handled(Handler(w.proc, c.exc, application_id, exits), resp)
            ELSE Done(w.proc, c.dict, resp)
        Received(s) ==
            IF s.blocked
            THEN [proc |-> s.proc, dict |-> NoDict, blocked |-> TRUE, resp |-> NoneVal]
            ELSE IF s.exc # "none"
            THEN Handled(Handler(s.proc, s.exc, application_id, exits), s.ret)
            ELSE Cleaned(Wait(Terminate(s.proc, exits)),
                         Classify(s.ret, application_id), s.ret)
    IN  Received(send_and_receive(p, tool_request, react))

\* get_instana_application past the credentials check, on the new process:
\* [proc, dict, blocked, init, resp].
do_get_instana_application(p, application_id, r0, r1, exits) ==
    LET Out(proc, d, blk, init, resp) ==
            [proc |-> proc, dict |-> d, blocked |-> blk, init |-> init,
             resp |-> resp]
        Handled(x, init) == Out(x.proc, x.dict, FALSE, init, NoneVal)
        Called(t, init) == Out(t.proc, t.dict, t.blocked, init, t.resp)
        Shaken(h) ==
            CASE h.status = "blocked" -> Out(h.proc, NoDict, TRUE, h.init, NoneVal)
              [] h.status = "exc" ->
                    Handled(Handler(h.proc, h.exc, application_id, exits), h.init)
              [] h.status = "failed" ->
                    Out(Terminate(h.proc, exits),
                        Failure("MCP initialization failed",
                                "No initialization response from MCP server",
                                application_id),
                        FALSE, h.init, NoneVal)
              [] OTHER -> Called(tool_call(h.proc, application_id, r1, exits), h.init)
    IN  Shaken(tool_handshake(p, r0))

\* ------------------------------------------------------- fetch_application
AppNames == {"checkout"}
\* The application ids fetch_application takes as absent: None and "".
NoAppIds == {"None", ""}

\* A text fetch_application returns: form "mock", "error" or "description",
\* with the values formatted into it ("absent" where the form has none).
Text(form, label, id, message) ==
    [form |-> form, label |-> label, id |-> id, message |-> message]
MockText(application_name) == Text("mock", application_name, "absent", "absent")

\* format_instana_data with the test of the error key left out: every
\* dictionary is formatted as a description.
format_description_only(instana_data, application_name, application_id) ==
    [text |-> Text("description", application_name,
                   IF instana_data.id # "absent" THEN instana_data.id
                   ELSE application_id, "absent"),
     exc |-> "none"]

\* tools.py:219-237, the branch on instana_data: [text, exc]. The dictionary
\* has none of the keys label, boundaryScope, services and tags, so the
\* defaults are formatted; instana_data['message'] raises KeyError on a
\* dictionary with an error key and no message.
format_instana_data(instana_data, application_name, application_id) ==
    IF instana_data.error # "absent"
    THEN IF instana_data.message = "absent"
         THEN [text |-> MockText(application_name), exc |-> "KeyError"]
         ELSE [text |-> Text("error", application_name, "absent",
                             instana_data.message),
               exc |-> "none"]
    ELSE [text |-> Text("description", application_name,
                        IF instana_data.id # "absent" THEN instana_data.id
                        ELSE application_id, "absent"),
          exc |-> "none"]

\* What fetch_application returns on instana_data: kind "text", msg the form
\* of the text, dict the instana_data it formatted.
RetText(f, instana_data) ==
    IF f.exc # "none" THEN RetRaised(f.exc)
    ELSE Ret("text", TRUE, f.text.form, NoneVal, instana_data)

\* What the operation op returns on the dictionary of get_instana_application.
ToolReturn(op, application_name, application_id, dict, blk) ==
    IF blk THEN RetBlocked
    ELSE IF op = "fetch_application"
    THEN RetText(format_instana_data(dict, application_name, application_id), dict)
    ELSE RetDict(dict)

\* The body of get_instana_application, run for the operation op: called
\* directly or by fetch_application (tools.py:217).
tool_run(op, application_name, application_id, instana_base_url, instana_api_token) ==
    /\ ToolCaller \notin blocked
    /\ UNCHANGED <<process, initialized>>
    /\ \E spawn \in {"raise", "running", "exited"} :
          IF ~CredentialsConfigured(instana_base_url, instana_api_token)
          THEN /\ last' = Last(op, ToolCaller, application_id,
                               FALSE, None, NoneVal, NoneVal,
                               ToolReturn(op, application_name, application_id,
                                   Failure("Instana credentials not configured",
                                       "Set INSTANA_BASE_URL and INSTANA_API_TOKEN environment variables",
                                       "absent"), FALSE))
               /\ procs' = St.procs
               /\ UNCHANGED blocked
          ELSE IF spawn = "raise"
          THEN /\ last' = Last(op, ToolCaller, application_id,
                               FALSE, None, NoneVal, NoneVal,
                               ToolReturn(op, application_name, application_id,
                                   Failure("Failed to fetch application from Instana MCP",
                                           "FileNotFoundError", application_id), FALSE))
               /\ procs' = St.procs
               /\ UNCHANGED blocked
          ELSE /\ \E r0 \in InitReactions, exits \in BOOLEAN :
                  \E r1 \in IF tool_handshake(Popen(ToolCaller, spawn), r0).status = "ok"
                            THEN ToolReactions ELSE {NoReaction} :
                     LET Returned(r) ==
                             /\ procs' = Append(St.procs, r.proc)
                             /\ blocked' = IF r.blocked THEN blocked \cup {ToolCaller}
                                           ELSE blocked
                             /\ last' = Last(op, ToolCaller,
                                             application_id, FALSE, Len(procs) + 1,
                                             r.init, r.resp,
                                             ToolReturn(op, application_name, application_id,
                                                        r.dict, r.blocked))
                     IN  Returned(do_get_instana_application(
                                     Popen(ToolCaller, spawn), application_id,
                                     r0, r1, exits))


get_instana_application(application_id, instana_base_url, instana_api_token) ==
    tool_run("get_instana_application", "absent", application_id,
             instana_base_url, instana_api_token)

\* tools.py:202-240.
fetch_application(application_name, application_id, instana_base_url, instana_api_token) ==
    IF application_id \in NoAppIds
    THEN /\ ToolCaller \notin blocked
         /\ last' = Last("fetch_application", ToolCaller, application_id, FALSE,
                         None, NoneVal, NoneVal,
                         Ret("text", TRUE, MockText(application_name).form,
                             NoneVal, NoDict))
         /\ UNCHANGED <<process, initialized, procs, blocked>>
    ELSE tool_run("fetch_application", application_name, application_id,
                  instana_base_url, instana_api_token)

\* The environment: a running server exits on its own (a crash).
ServerExit(pid) ==
    /\ procs[pid].state = "running"
    /\ procs[pid].owner \notin blocked
    /\ procs' = [procs EXCEPT ![pid].state = "exited", ![pid].outOpen = FALSE]
    /\ UNCHANGED <<process, initialized, blocked, last>>

Init ==
    /\ process = [c \in Clients |-> None]
    /\ initialized = [c \in Clients |-> FALSE]
    /\ procs = <<>>
    /\ blocked = {}
    /\ last = Last("init", ToolCaller, "absent", FALSE, None, NoneVal, NoneVal, RetNone)

\* The client and the tool share no state: a behaviour drives the client, or
\* makes one call of the tool on a process of its own.
ToolIdle == \A pid \in 1..Len(procs) : procs[pid].owner # ToolCaller

Next ==
    \/ ToolIdle /\ \E c \in Solo, u \in EnvValues, t \in EnvValues :
                      create_instana_mcp_client(c, u, t)
    \/ ToolIdle /\ \E c \in Solo : connect(c)
    \/ ToolIdle /\ \E c \in Solo : call_tool(c)
    \/ ToolIdle /\ \E c \in Solo : disconnect(c)
    \/ ToolIdle /\ \E c \in Solo : __exit__(c)
    \/ procs = <<>> /\ \E application_id \in AppIds, u \in EnvValues, t \in EnvValues :
                          get_instana_application(application_id, u, t)
    \/ procs = <<>> /\ \E application_name \in AppNames,
                            application_id \in AppIds \cup NoAppIds,
                            u \in EnvValues, t \in EnvValues :
                          fetch_application(application_name, application_id, u, t)
    \/ \E pid \in 1..Len(procs) : ServerExit(pid)

Spec == Init /\ [][Next]_vars

\* Two instances: every client of Clients acts, in any interleaving of their
\* operations, each against a server of its own that answers, closes its
\* output, exits, or stays silent.
DuoInitReactions ==
    {[lines |-> <<JsonLine(AckVal)>>, then |-> "stay"],
     [lines |-> <<JsonLine(AckVal)>>, then |-> "exit"],
     [lines |-> <<>>, then |-> "closeOut"],
     [lines |-> <<>>, then |-> "stay"]}
DuoToolReactions ==
    {[lines |-> <<JsonLine(TextResultVal)>>, then |-> "stay"],
     [lines |-> <<MalformedLine>>, then |-> "stay"],
     [lines |-> <<>>, then |-> "closeOut"]}

DuoNext ==
    \/ \E c \in Clients : connect_on(c, DuoInitReactions)
    \/ \E c \in Clients : call_tool_on(c, DuoToolReactions)
    \/ \E c \in Clients : disconnect(c)
    \/ \E c \in Clients : __exit__(c)
    \/ \E pid \in 1..Len(procs) : ServerExit(pid)

DuoSpec == Init /\ [][DuoNext]_vars

\* ================================================================= claims
\* A step that spawns nothing and touches no process: every process record is
\* as before, or is a released process whose history was dropped.
NoIO ==
    /\ Len(procs') = Len(procs)
    /\ \A pid \in 1..Len(procs) :
          \/ procs'[pid] = procs[pid]
          \/ /\ ~Held(process, pid)
             /\ procs'[pid] = [procs[pid] EXCEPT !.out = <<>>, !.log = <<>>]

\* C1: a call_tool made while the client is not Ready returns None at once and
\* does no I/O: no process is spawned, nothing is written to or read from any
\* process.
C1_NotReadyCallDoesNoIO ==
    [][\A c \in Solo :
          (call_tool(c) /\ ~initialized[c]) =>
              /\ last'.ret = RetValue(NoneVal)
              /\ NoIO
              /\ UNCHANGED <<process, initialized, blocked>>]_vars

\* C1 witness: a call_tool made when not Ready, after a process had been
\* spawned and terminated (a failed connect or a disconnect).
C1_Witness ==
    /\ last.op = "call_tool" /\ ~last.pre
    /\ \E pid \in 1..Len(procs) : procs[pid].termSent

\* C2 (as claimed): when connect returns failure, the process it spawned is
\* not running and the client is not Ready.
C2_FailedConnectLeavesNoProcess ==
    (last.op = "connect" /\ last.ret.kind = "pair" /\ ~last.ret.ok) =>
        /\ ~initialized[last.c]
        /\ last.pid # None => procs[last.pid].state # "running"

\* The handshake as the log of a process shows it: initialize written, a line
\* read, notifications/initialized written.
HandshakeDone(log) ==
    /\ Len(log) >= 3
    /\ log[1] = WEvent(init_request)
    /\ log[2] = REvent("line")
    /\ log[3] = WEvent(initialized_notif)

\* C3: a connect that returns success leaves the client Ready, and a Ready
\* client holds a process on which the whole handshake was done.
C3_ReadyOnlyAfterHandshake ==
    /\ (last.op = "connect" /\ last.ret.kind = "pair" /\ last.ret.ok) =>
          initialized[last.c]
    /\ \A c \in Clients :
          initialized[c] =>
              /\ process[c] # None
              /\ HandshakeDone(procs[process[c]].log)

\* C3 witness: a connect that did the handshake and returned success.
C3_Witness ==
    /\ last.op = "connect" /\ ~last.pre /\ last.ret.ok
    /\ initialized[last.c]

\* C4: disconnect never raises and leaves no handle and not Ready; on a client
\* that holds no handle (a second disconnect in a row, or one after the
\* cleanup of a failed connect) it changes nothing and terminates nothing.
C4_DisconnectIdempotent ==
    [][\A c \in Solo :
          disconnect(c) =>
              /\ last'.ret = RetNone
              /\ process'[c] = None /\ ~initialized'[c]
              /\ process[c] = None => (NoIO /\ UNCHANGED <<process, initialized>>)
              /\ (last.op = "disconnect" /\ last.c = c) => process[c] = None]_vars

\* C4 witness: a disconnect on a client already disconnected, whose earlier
\* process had been sent the signal and its history dropped since.
C4_Witness ==
    /\ last.op = "disconnect" /\ ~last.pre
    /\ \E pid \in 1..Len(procs) :
          procs[pid].owner = last.c /\ procs[pid].termSent /\ procs[pid].log = <<>>

\* The server gave no output in reply to initialize: the read that followed
\* the request found the pipe closed ("eof") or waits on a silent server.
NoInitOutput(pid) ==
    LET log == procs[pid].log
    IN  /\ Len(log) >= 2
        /\ log[1] = WEvent(init_request)
        /\ log[2] \in {REvent("eof"), REvent("block")}

\* C5 (as claimed): when the server gives no output in reply to initialize,
\* closed or silent, the operation returns the failure "No initialization
\* response from MCP server" and the process has been sent the signal.
C5_NoOutputFailsInit ==
    /\ (last.op = "connect" /\ last.pid # None /\ NoInitOutput(last.pid)) =>
          /\ last.ret = RetPair(FALSE, "No initialization response from MCP server")
          /\ procs[last.pid].termSent
    /\ (last.op = "get_instana_application" /\ last.pid # None
            /\ NoInitOutput(last.pid)) =>
          /\ last.ret.kind = "dict"
          /\ last.ret.dict.message = "No initialization response from MCP server"
          /\ procs[last.pid].termSent

Writes(log) == SelectSeq(log, LAMBDA ev : ev.e = "W")

\* The order of the messages written to one process.
Ordered(log) ==
    /\ Writes(log) # <<>> => Writes(log)[1] = WEvent(init_request)
    /\ \A i \in 1..Len(log) :
          log[i] = WEvent(initialized_notif) =>
              \E j \in 1..(i - 1) :
                  /\ log[j] = REvent("line")
                  /\ \E k \in 1..(j - 1) : log[k] = WEvent(init_request)
    /\ \A i \in 1..Len(log) :
          log[i] = WEvent(tool_request) =>
              \E j \in 1..(i - 1) : log[j] = WEvent(initialized_notif)

\* C6: on every process, of a client or of the tool, initialize is the first
\* message written, notifications/initialized is written only after a line
\* was read in reply to initialize, and tools/call only after
\* notifications/initialized.
C6_WritesOrdered == \A pid \in 1..Len(procs) : Ordered(procs[pid].log)

\* C6 witness: the tool has written its tools/call to its process.
C6_Witness ==
    \E pid \in 1..Len(procs) :
        /\ procs[pid].owner = ToolCaller
        /\ \E i \in 1..Len(procs[pid].log) : procs[pid].log[i] = WEvent(tool_request)

\* A valid acknowledgement of initialize: a response for id 0 with a result
\* and no error.
ValidAck(v) == v.top = "obj" /\ v.id = 0 /\ v.err = "absent" /\ v.res # "absent"

\* C7 (as claimed): connect returns success only if the line read after
\* initialize is a valid acknowledgement of it.
C7_SuccessOnlyOnValidAck ==
    (last.op = "connect" /\ ~last.pre /\ last.ret.kind = "pair" /\ last.ret.ok) =>
        ValidAck(last.init)

\* The success shape: result.content is a non-empty list whose first element
\* is an object with a text member.
HasText(v) ==
    /\ v.top = "obj" /\ v.res = "obj" /\ v.content = "list" /\ v.first = "obj"
    /\ v.textk \in {"str", "nonstr"}

ToolReturned == last.op = "get_instana_application" /\ last.ret.kind = "dict"

\* C8 (as claimed): a response of the success shape, with a string text and
\* no error member, gives Success with the decoded text, or the raw text
\* when it is not JSON.
C8_SuccessPayload ==
    (ToolReturned /\ HasText(last.resp) /\ last.resp.textk = "str"
        /\ last.resp.err = "absent") =>
        last.ret.dict =
            Success(last.arg,
                    IF JsonLoads(last.resp.text).ok
                    THEN [form |-> "json", val |-> JsonLoads(last.resp.text).val]
                    ELSE [form |-> "text", val |-> last.resp.text])

\* C9 (as claimed): a response with an error member gives the failure "MCP
\* tool call failed" with the stringified error, whatever else it holds.
C9_ErrorTakesPrecedence ==
    (ToolReturned /\ last.resp.top = "obj" /\ last.resp.err # "absent") =>
        last.ret.dict = Failure("MCP tool call failed", PyStr(last.resp.err), last.arg)

\* C10 (as claimed, for a server that exits within the grace period): a
\* response object with no error member that is not of the success shape
\* gives the failure "Application not found".
C10_OtherShapesNotFound ==
    (ToolReturned /\ last.resp.top = "obj" /\ last.resp.err = "absent"
        /\ ~HasText(last.resp)
        /\ last.ret.dict.error # "MCP server timeout") =>
        last.ret.dict =
            Failure("Application not found",
                    "Could not find application with ID {application_id}", last.arg)

\* The reply to tools/call never came: the last request written was
\* tools/call and the read after it waits on a server that stays silent.
SilentToolCall(log) ==
    /\ Len(log) >= 2
    /\ log[Len(log) - 1] = WEvent(tool_request)
    /\ log[Len(log)] = REvent("block")

\* C11 (as claimed): when the server stays alive and silent after a tools/call
\* request, the call returns (the tool with the failure "MCP server timeout")
\* and the process has been sent the signal; no caller stays blocked in the
\* read.
C11_SilentCallTimesOut ==
    /\ (last.op = "get_instana_application" /\ last.pid # None
            /\ SilentToolCall(procs[last.pid].log)) =>
          /\ last.ret.kind = "dict"
          /\ last.ret.dict.error = "MCP server timeout"
          /\ procs[last.pid].termSent
    /\ \A c \in Clients :
          (process[c] # None /\ SilentToolCall(procs[process[c]].log)) =>
              /\ c \notin blocked
              /\ procs[process[c]].termSent

\* C12 (as claimed): once the scope of a client has been left, no process
\* that the client spawned is still running.
C12_ScopeExitLeavesNoProcess ==
    last.op = "__exit__" =>
        \A pid \in 1..Len(procs) :
            procs[pid].owner = last.c => procs[pid].state # "running"

\* What each operation gives back when it returns.
ReturnKind(op) ==
    CASE op = "connect" -> "pair"
      [] op = "call_tool" -> "value"
      [] op \in {"disconnect", "__exit__", "init"} -> "none"
      [] op = "get_instana_application" -> "dict"
      [] op = "fetch_application" -> "text"
      [] op = "create_instana_mcp_client" -> "client"

\* C13: no exception leaves an operation: whenever an operation returns,
\* whatever the server did (spawn failure, broken pipe, closed output,
\* malformed line, signal ignored), connect returns a pair, call_tool a
\* response or None, disconnect returns normally and get_instana_application
\* returns a dictionary. (A read that never returns is not a return, and
\* create_instana_mcp_client, which raises ValueError, is not one of these
\* operations.)
C13_NoUnhandledFault ==
    /\ last.op # "create_instana_mcp_client" => last.ret.kind # "raised"
    /\ last.ret.kind \notin {"blocked", "raised"} =>
          last.ret.kind = ReturnKind(last.op)

\* C13 witness: a connect whose write of the notification hit a broken pipe
\* (the server answered initialize and exited) and that returned the failure
\* pair, on a process that was then sent the signal.
C13_Witness ==
    /\ last.op = "connect"
    /\ last.ret = RetPair(FALSE, "Failed to connect to MCP server: BrokenPipeError")
    /\ last.pid # None /\ procs[last.pid].termSent
    /\ \E i \in 1..Len(procs[last.pid].log) :
          procs[last.pid].log[i] = WFailEvent(initialized_notif)

\* The reply to tools/call was a line: the last request written was
\* tools/call and the read after it returned a line of text.
LineAfterToolCall(log) ==
    /\ Len(log) >= 2
    /\ log[Len(log) - 1] = WEvent(tool_request)
    /\ log[Len(log)] = REvent("line")

\* C14 (as claimed): a line read in reply to tools/call that decodes to
\* nothing (an empty line, or text that is not JSON) is surfaced as "no
\* response": call_tool returns None, and get_instana_application returns the
\* failure "No response from tool call".
C14_UndecodableLineIsNoResponse ==
    /\ (last.op = "call_tool" /\ last.pre /\ process[last.c] # None
            /\ LineAfterToolCall(procs[process[last.c]].log)
            /\ last.resp = NoneVal) =>
          last.ret = RetValue(NoneVal)
    /\ (ToolReturned /\ last.pid # None
            /\ LineAfterToolCall(procs[last.pid].log)
            /\ last.resp = NoneVal) =>
          last.ret.dict.error = "No response from tool call"

\* The server closed its output instead of answering tools/call: the last
\* request written was tools/call and the read after it found end of stream.
ClosedAfterToolCall(log) ==
    /\ Len(log) >= 2
    /\ log[Len(log) - 1] = WEvent(tool_request)
    /\ log[Len(log)] = REvent("eof")

\* C15 (as claimed): after a completed handshake, when the server closes its
\* output without answering tools/call, get_instana_application returns the
\* failure "No response from tool call" with the application id.
C15_NoResponseFailure ==
    (ToolReturned /\ last.pid # None /\ HandshakeDone(procs[last.pid].log)
        /\ ClosedAfterToolCall(procs[last.pid].log)) =>
        last.ret.dict =
            Failure("No response from tool call",
                    "MCP server did not respond to tool call", last.arg)

\* C16 (as claimed): every failure dictionary that get_instana_application
\* returns carries the application id it was called with.
C16_FailureCarriesId ==
    (ToolReturned /\ last.ret.dict.error # "absent") =>
        last.ret.dict.application_id = last.arg

\* The last exchange on a process failed with an I/O error: the write hit a
\* broken pipe, or the read raised.
IOFailed(log) ==
    /\ log # <<>>
    /\ \/ log[Len(log)].e = "WFail"
       \/ log[Len(log)] = REvent("raise")

\* C17 (as claimed): when a write or a read fails with an I/O error, in the
\* handshake of connect or in a call_tool on a Ready client, the process has
\* been sent the signal and the client is not Ready afterwards.
C17_IOFailureTearsDown ==
    /\ (last.op = "connect" /\ last.pid # None /\ IOFailed(procs[last.pid].log)) =>
          /\ ~initialized[last.c]
          /\ procs[last.pid].termSent
    /\ (last.op = "call_tool" /\ last.pre) =>
          \A pid \in 1..Len(procs) :
              (procs[pid].owner = last.c /\ IOFailed(procs[pid].log)) =>
                  /\ ~initialized[last.c]
                  /\ procs[pid].termSent

\* C18 (as claimed): when get_instana_application returns after it spawned a
\* process, the process has been sent the signal and waited for: it is not
\* running and has been reaped.
C18_ToolCleansUp ==
    (ToolReturned /\ last.pid # None) =>
        /\ procs[last.pid].termSent
        /\ procs[last.pid].state # "running"
        /\ procs[last.pid].reaped

\* The initialize requests written, or attempted, on a process.
InitWrites(log) == SelectSeq(log, LAMBDA ev : ev.e # "R" /\ ev.m = "initialize")

\* C19: no process is ever written more than one initialize request; no step
\* writes initialize to a process that existed before the step (a handshake
\* is done only on a process spawned in the same step); and a connect that
\* spawns a process holds that one or none afterwards.
C19_OneHandshakePerProcess ==
    [][/\ \A pid \in 1..Len(procs') : Len(InitWrites(procs'[pid].log)) <= 1
       /\ \A pid \in 1..Len(procs) :
             Len(InitWrites(procs'[pid].log)) <= Len(InitWrites(procs[pid].log))
       /\ Len(procs') # Len(procs) =>
             /\ Len(procs') = Len(procs) + 1
             /\ last'.pid = Len(procs')
             /\ last'.op = "connect" => process'[last'.c] \in {None, last'.pid}]_vars

\* C19 witness: a connect has failed its handshake on the second process of a
\* client whose first process had been let go; the second process was written
\* initialize once.
C19_Witness ==
    /\ last.op = "connect" /\ last.ret.kind = "pair" /\ ~last.ret.ok
    /\ last.pid = 2
    /\ procs[1].owner = last.c /\ procs[1].termSent
    /\ Len(InitWrites(procs[2].log)) = 1

\* Every request with an id in the log is directly followed by the read for
\* it, and a read that never returns is the last event on the process.
OneOutstanding(log) ==
    \A i \in 1..Len(log) :
        /\ (log[i].e = "W" /\ log[i].id >= 0) =>
              /\ i < Len(log)
              /\ log[i + 1].e = "R"
        /\ log[i] = REvent("block") => i = Len(log)

\* C20: a client has at most one request outstanding: after a request with an
\* id is written to a process, nothing more is written to it until the read
\* for that request has returned a line, end of stream or a failure; while
\* the read has not returned, nothing is written at all.
C20_OneOutstandingRequest ==
    \A pid \in 1..Len(procs) : OneOutstanding(procs[pid].log)

\* C20 witness: a client has made a second tools/call on its process after
\* the first one was answered.
C20_Witness ==
    \E c \in Clients :
        /\ process[c] # None
        /\ Len(SelectSeq(procs[process[c]].log,
                         LAMBDA ev : ev = WEvent(tool_request))) = 2

\* C21 (as claimed): after a call_tool on a Ready client read a line that
\* decoded to nothing, a later call_tool on the same process that returns a
\* response returns a line the server emitted for that later request: no
\* line emitted for an earlier request was still waiting in the pipe when the
\* later request was written.
C21_NoStaleLine ==
    [][\A c \in Solo :
          (/\ process[c] # None
           /\ last.op = "call_tool" /\ last.c = c /\ last.pre
           /\ last.ret = RetValue(NoneVal)
           /\ LineAfterToolCall(procs[process[c]].log)
           /\ last'.op = "call_tool" /\ last'.c = c
           /\ process'[c] = process[c]
           /\ Len(procs'[process[c]].log) > Len(procs[process[c]].log)
           /\ last'.ret.kind = "value" /\ last'.ret.val # NoneVal) =>
              procs[process[c]].out = <<>>]_vars

\* C22: when INSTANA_BASE_URL or INSTANA_API_TOKEN is unset or empty,
\* get_instana_application returns the "Instana credentials not configured"
\* dictionary and create_instana_mcp_client raises ValueError, and neither
\* spawns a process or writes a message: no process record is added or
\* changed.
C22_NoCredentialsNoSpawn ==
    [][\A u \in EnvValues, t \in EnvValues :
          (u \in {"None", ""} \/ t \in {"None", ""}) =>
              /\ \A application_id \in AppIds :
                    \/ /\ last'.ret =
                              RetDict(Failure("Instana credentials not configured",
                                  "Set INSTANA_BASE_URL and INSTANA_API_TOKEN environment variables",
                                  "absent"))
                       /\ procs' = procs
                       /\ UNCHANGED <<process, initialized, blocked>>
                    \/ ~(procs = <<>> /\ get_instana_application(application_id, u, t))
              /\ \A c \in Solo :
                    \/ /\ last'.ret = RetRaised("ValueError")
                       /\ UNCHANGED <<process, initialized, procs, blocked>>
                    \/ ~(ToolIdle /\ create_instana_mcp_client(c, u, t))]_vars

\* C22 witness: get_instana_application has returned the credentials error,
\* and no process exists.
C22_Witness ==
    /\ last.op = "get_instana_application"
    /\ last.ret.kind = "dict"
    /\ last.ret.dict.error = "Instana credentials not configured"
    /\ procs = <<>>

\* C23 (as claimed): once a line was read and decoded in reply to tools/call,
\* the dictionary get_instana_application returns is a function of that
\* response and the application id alone, whatever the process does
\* afterwards: a well-formed success response gives Success.
C23_ResultFromResponseAlone ==
    (ToolReturned /\ last.resp # NoneVal) =>
        last.ret.dict =
            IF Classify(last.resp, last.arg).exc = "none"
            THEN Classify(last.resp, last.arg).dict
            ELSE Failure("Failed to fetch application from Instana MCP",
                         Classify(last.resp, last.arg).exc, last.arg)

\* C24: between the operations of a client (the client is not inside a read
\* that never returns) the Ready flag and the process handle agree: Ready
\* exactly when a handle is held.
C24_ReadyIffHandle ==
    \A c \in Clients :
        c \notin blocked => (initialized[c] <=> process[c] # None)

\* C24 witness: a disconnect on a Ready client has cleared the handle and the
\* flag together, after the client had gone through a failed connect or an
\* earlier disconnect on another process.
C24_Witness ==
    /\ last.op = "disconnect" /\ last.pre
    /\ process[last.c] = None /\ ~initialized[last.c]
    /\ Len(procs) = 2 /\ procs[2].owner = last.c /\ procs[2].termSent

\* C25: connect on a Ready client returns (True, None) and changes nothing:
\* no process is spawned, no process record changes (nothing is written,
\* read or signalled), and the handle and the flag stay as they were, also
\* when the server process has exited in the meantime.
C25_ConnectWhenReadyIsNoOp ==
    [][\A c \in Solo :
          (initialized[c] /\ ToolIdle /\ connect(c)) =>
              /\ last'.ret = RetPair(TRUE, "None")
              /\ UNCHANGED <<process, initialized, procs, blocked>>]_vars

\* C25 witness: connect has returned on a client that was Ready and whose
\* server process had exited.
C25_Witness ==
    /\ last.op = "connect" /\ last.pre
    /\ initialized[last.c] /\ process[last.c] # None
    /\ procs[process[last.c]].state = "exited"

\* C26: call_tool leaves the process handle and the Ready flag of its client
\* as they were, whatever the exchange gave (a response, or None after a
\* closed stream, a broken pipe or a malformed line).
C26_CallToolKeepsConnectionState ==
    [][\A c \in Solo :
          (ToolIdle /\ call_tool(c)) => UNCHANGED <<process, initialized>>]_vars

\* C26 witness: a call_tool on a Ready client whose server had exited hit a
\* broken pipe and returned None, and the client is still Ready and still
\* holds the handle.
C26_Witness ==
    /\ last.op = "call_tool" /\ last.pre /\ last.ret = RetValue(NoneVal)
    /\ initialized[last.c] /\ process[last.c] # None
    /\ LET log == procs[process[last.c]].log
       IN  log # <<>> /\ log[Len(log)] = WFailEvent(tool_request)

\* C27: every process a client spawned that has not been sent the signal is
\* the one the client holds: connect never spawns while a handle is held, and
\* at most one process of a client is without the signal at any time.
C27_OneLiveProcessPerClient ==
    \A c \in Clients :
        \A pid \in 1..Len(procs) :
            (procs[pid].owner = c /\ ~procs[pid].termSent) => process[c] = pid

\* C27 witness: a client that let its first process go (signal sent) has
\* connected again and holds its second process, not yet signalled.
C27_Witness ==
    \E c \in Clients :
        /\ Len(procs) = 2 /\ process[c] = 2
        /\ procs[1].owner = c /\ procs[1].termSent
        /\ procs[2].owner = c /\ ~procs[2].termSent

\* The id a message of each kind carries; -1 stands for no id.
FixedId(method) ==
    CASE method = "initialize" -> 0
      [] method = "tools/call" -> 1
      [] method = "notifications/initialized" -> -1

\* C28: every message written, or attempted, on any process carries the id
\* of its kind: 0 for initialize, 1 for tools/call (the second and later
\* calls on a connection included), none for notifications/initialized.
C28_FixedRequestIds ==
    \A pid \in 1..Len(procs) :
        \A i \in 1..Len(procs[pid].log) :
            procs[pid].log[i].e # "R" =>
                procs[pid].log[i].id = FixedId(procs[pid].log[i].m)

\* C28 witness: two tools/call requests were written on one connection of a
\* client, after its initialize and its notification.
C28_Witness ==
    \E pid \in 1..Len(procs) :
        /\ procs[pid].owner \in Clients
        /\ HandshakeDone(procs[pid].log)
        /\ Len(ToolCalls(procs[pid].log)) = 2

\* Nothing was written to, read from or signalled on a process between p and
\* q (it may have exited on its own).
Untouched(p, q) ==
    /\ q.owner = p.owner
    /\ q.log = p.log /\ q.out = p.out
    /\ q.termSent = p.termSent /\ q.reaped = p.reaped

\* C29: in every step, the operation of one client (the one recorded in
\* last) leaves every other client's handle, Ready flag and blocked status
\* unchanged, does no I/O on the process another client holds, and sends no
\* signal to any process another client spawned.
C29_InstancesShareNoState ==
    [][/\ \A d \in Clients :
             d # last'.c =>
                 /\ process'[d] = process[d]
                 /\ initialized'[d] = initialized[d]
                 /\ (d \in blocked') = (d \in blocked)
                 /\ process[d] # None =>
                       Untouched(procs[process[d]], procs'[process[d]])
       /\ \A pid \in 1..Len(procs) :
             procs[pid].owner # last'.c =>
                 /\ procs'[pid].termSent = procs[pid].termSent
                 /\ procs'[pid].reaped = procs[pid].reaped
                 /\ procs'[pid].log \in {procs[pid].log, <<>>}]_vars

\* C29 witness: one client has disconnected from its process while the other
\* client is Ready on a process of its own.
C29_Witness ==
    \E c \in Clients, d \in Clients :
        /\ c # d
        /\ last.op = "disconnect" /\ last.c = c /\ last.pre
        /\ process[c] = None
        /\ initialized[d] /\ process[d] # None
        /\ procs[process[d]].owner = d
        /\ \E pid \in 1..Len(procs) : procs[pid].owner = c /\ procs[pid].termSent

\* The dictionary is a Success of get_instana_application for application_id.
IsSuccess(d, application_id) ==
    /\ d.error = "absent"
    /\ d.id = application_id
    /\ d.source = "mcp-instana"

\* C30: fetch_application maps the tool result to text without faulting:
\* whenever it returns, it returns a text; with no application id the text is
\* the mock text and no process was spawned; with an application id the text
\* is an error text exactly when get_instana_application returned a
\* dictionary with an error key, and a formatted description exactly when it
\* returned a Success.
C30_FetchApplicationMapsResult ==
    (last.op = "fetch_application" /\ last.ret.kind # "blocked") =>
        /\ last.ret.kind = "text"
        /\ last.arg \in NoAppIds =>
              /\ last.ret.msg = "mock"
              /\ last.pid = None
              /\ procs = <<>>
        /\ last.arg \notin NoAppIds =>
              /\ last.ret.msg \in {"error", "description"}
              /\ last.ret.msg = "error" <=> last.ret.dict.error # "absent"
              /\ last.ret.msg = "description" <=> IsSuccess(last.ret.dict, last.arg)

\* fetch_application, given an application id, formatted a Success built from
\* a response the server sent.
C30_Witness ==
    /\ last.op = "fetch_application"
    /\ last.arg \in AppIds
    /\ last.pid # None
    /\ Truthy(last.resp)
    /\ last.ret.kind = "text"
    /\ last.ret.msg = "description"
    /\ IsSuccess(last.ret.dict, last.arg)

====
